---------------------------- MODULE Spec2Model ----------------------------
(***************************************************************************)
(* Model of the road-network core of src/src/parser.py:                    *)
(*   filter_out_orphan_nodes, get_crossings, get_segments,                 *)
(*   evenly_space_one_segment and evenly_space_segments.                   *)
(*                                                                         *)
(* Python dicts are functions with an explicit domain (Put is the dict     *)
(* assignment d[k] = v); a dict's iteration order is its insertion order,  *)
(* so the way store and the segment map, whose keys are inserted in        *)
(* increasing order, are walked by an index.  Way ids are the positions    *)
(* 1..Len(ways) of the way store.                                          *)
(*                                                                         *)
(* Coordinates are points <<x, y>> with integer components on the line     *)
(* x = 0, and epsilon is a positive integer, so that the Euclidean norm,   *)
(* the unit direction and int(d / epsilon) are exact.                      *)
(***************************************************************************)
EXTENDS Integers, Sequences, FiniteSets, TLC

VARIABLES
    pc,           \* position of the running function
    ways,         \* way store: sequence of node lists
    invways,      \* inverted way index: node id -> list of way ids
    nodeshash,    \* coordinate store: node id -> <<x, y>>
    crossings,    \* crossing set
    segments,     \* segment map: sid -> node list
    invsegments,  \* inverted segment index: node id -> list of sids
    sid,          \* get_segments: next segment id
    segment,      \* get_segments: working buffer; evenly_space_one_segment: its argument
    w,            \* get_segments: index of the way being processed
    j,            \* index of the next node of the list being scanned
    emitted,      \* get_segments: <<sid, way>> of every segments[sid] = ... executed, in order
    epsilon,      \* spacing
    prevnode,     \* evenly_space_one_segment: reference point
    pts,          \* evenly_space_one_segment: the list `points`
    points,       \* evenly_space_segments: the pre-allocated array `points`
    idx,          \* evenly_space_segments: write position
    k,            \* evenly_space_segments: index of the next segment of the map
    fault,        \* exception raised, or "none"
    result        \* returned value of the running function

vars == <<pc, ways, invways, nodeshash, crossings, segments, invsegments, sid,
          segment, w, j, emitted, epsilon, prevnode, pts, points, idx, k,
          fault, result>>

---------------------------------------------------------------------------
(* Bounds of the model *)

MaxWays == 2     \* ways in a way store (and segments in a segment map)
MaxRefs == 4     \* node references in a way store, over all its ways
MaxEps == 3      \* largest spacing

Nodes == {1, 2, 3}          \* node ids
Coords == {0, 3, 5, 10}     \* y coordinates of nodes (x = 0)
NearCoords == {0, 3}        \* the coordinates used where a store is one input among several

---------------------------------------------------------------------------
(* Generic helpers *)

Range(s) == {s[i] : i \in DOMAIN s}

Put(d, key, v) == [x \in DOMAIN d \cup {key} |-> IF x = key THEN v ELSE d[x]]

EmptyDict == [x \in {} |-> <<>>]

Abs(x) == IF x < 0 THEN -x ELSE x

ListsUpTo(n) == UNION {[1..m -> Nodes] : m \in 0..n}

RECURSIVE WayStores(_, _)
WayStores(n, r) ==
    IF n = 0 THEN {<<>>}
    ELSE {<<>>} \cup
         UNION {{<<l>> \o rest : rest \in WayStores(n - 1, r - Len(l))} : l \in ListsUpTo(r)}

---------------------------------------------------------------------------
(* get_segments *)

RECURSIVE Register(_, _, _)
Register(inv, seg, s) ==
    IF seg = <<>> THEN inv
    ELSE LET snode == Head(seg)
             inv1 == IF snode \in DOMAIN inv
                     THEN Put(inv, snode, Append(inv[snode], s))
                     ELSE Put(inv, snode, <<s>>)
         IN Register(inv1, Tail(seg), s)

HasCrossing(nodes) == crossings \cap Range(nodes) # {}

SplitHereLate(node, seg) == node \in crossings /\ Len(seg) > 2

SplitHere(node, seg) == node \in crossings /\ Len(seg) > 1

NewBufferEmpty(node) == <<>>

NewBuffer(node) == <<node>>

NextSidStuck(s) == s

NextSid(s) == s + 1

InitSeg ==
    /\ pc = "way"
    /\ ways \in WayStores(MaxWays, MaxRefs)
    /\ crossings \in SUBSET Nodes
    /\ invways = EmptyDict
    /\ nodeshash = EmptyDict
    /\ segments = EmptyDict
    /\ invsegments = EmptyDict
    /\ sid = 0
    /\ segment = <<>>
    /\ w = 1
    /\ j = 1
    /\ emitted = <<>>
    /\ epsilon = 1
    /\ prevnode = <<0, 0>>
    /\ pts = <<>>
    /\ points = <<>>
    /\ idx = 0
    /\ k = 1
    /\ fault = "none"
    /\ result = <<>>

OtherSeg == <<invways, nodeshash, crossings, ways, epsilon, prevnode, pts, points,
              idx, k, fault, result>>

WholeWay ==
    /\ pc = "way"
    /\ w <= Len(ways)
    /\ ~HasCrossing(ways[w])
    /\ segments' = Put(segments, sid, ways[w])
    /\ emitted' = Append(emitted, <<sid, w>>)
    /\ sid' = NextSid(sid)
    /\ w' = w + 1
    /\ UNCHANGED <<pc, invsegments, segment, j>>
    /\ UNCHANGED OtherSeg

BeginScan ==
    /\ pc = "way"
    /\ w <= Len(ways)
    /\ HasCrossing(ways[w])
    /\ segment' = <<>>
    /\ j' = 1
    /\ pc' = "scan"
    /\ UNCHANGED <<segments, invsegments, sid, w, emitted>>
    /\ UNCHANGED OtherSeg

ScanNode ==
    /\ pc = "scan"
    /\ j <= Len(ways[w])
    /\ LET node == ways[w][j]
           seg == Append(segment, node)
       IN IF SplitHere(node, seg)
          THEN /\ segments' = Put(segments, sid, seg)
               /\ emitted' = Append(emitted, <<sid, w>>)
               /\ invsegments' = Register(invsegments, seg, sid)
               /\ segment' = NewBuffer(node)
               /\ sid' = NextSid(sid)
          ELSE /\ segment' = seg
               /\ UNCHANGED <<segments, emitted, invsegments, sid>>
    /\ j' = j + 1
    /\ UNCHANGED <<pc, w>>
    /\ UNCHANGED OtherSeg

LastSegment ==
    /\ pc = "scan"
    /\ j > Len(ways[w])
    /\ segments' = Put(segments, sid, segment)
    /\ emitted' = Append(emitted, <<sid, w>>)
    /\ invsegments' = Register(invsegments, segment, sid)
    /\ sid' = NextSid(sid)
    /\ w' = w + 1
    /\ pc' = "way"
    /\ UNCHANGED <<segment, j>>
    /\ UNCHANGED OtherSeg

ReturnSegments ==
    /\ pc = "way"
    /\ w > Len(ways)
    /\ pc' = "done"
    /\ result' = <<segments, invsegments>>
    /\ UNCHANGED <<ways, invways, nodeshash, crossings, segments, invsegments, sid,
                   segment, w, j, emitted, epsilon, prevnode, pts, points, idx, k,
                   fault>>

NextSeg == WholeWay \/ BeginScan \/ ScanNode \/ LastSegment \/ ReturnSegments

SpecSeg == InitSeg /\ [][NextSeg]_vars

---------------------------------------------------------------------------
(* Properties of get_segments *)

Min(S) == CHOOSE x \in S : \A y \in S : x <= y

\* the ids under which the segments of way wi were stored
SidsOf(wi) == {emitted[i][1] : i \in {x \in DOMAIN emitted : emitted[x][2] = wi}}

\* the node lists of the segments with ids in S, in increasing id order, joined with
\* the first node of every segment but the first left out
RECURSIVE JoinRest(_)
JoinRest(S) ==
    IF S = {} THEN <<>>
    ELSE LET m == Min(S)
         IN SubSeq(segments[m], 2, Len(segments[m])) \o JoinRest(S \ {m})

Join(S) == IF S = {} THEN <<>> ELSE segments[Min(S)] \o JoinRest(S \ {Min(S)})

\* every segment of S but the first starts with the last node of the one before it
SharedBoundaries(S) ==
    \A s \in S : s # Min(S) =>
        LET p == CHOOSE q \in S : q < s /\ \A r \in S : r < s => r <= q
        IN /\ segments[s] # <<>>
           /\ segments[p] # <<>>
           /\ segments[s][1] = segments[p][Len(segments[p])]

\* C1: after get_segments returns, a node occurs in segments[s] if and only if s
\* occurs in invsegments[n], for every node n and segment id s
C1_InvSegmentsConsistent ==
    pc = "done" =>
        \A n \in Nodes, s \in DOMAIN segments :
            (n \in Range(segments[s]))
                <=> (n \in DOMAIN invsegments /\ s \in Range(invsegments[n]))

\* C2: for every processed way with a non-empty node list, its segments taken in
\* increasing id order and joined with the shared boundary node counted once give
\* back the way's node sequence
C2_SegmentCoverage ==
    \A wi \in 1..(w - 1) :
        ways[wi] # <<>> =>
            /\ SidsOf(wi) \subseteq DOMAIN segments
            /\ SharedBoundaries(SidsOf(wi))
            /\ Join(SidsOf(wi)) = ways[wi]

C2_Witness ==
    /\ pc = "done"
    /\ \E wi \in 1..Len(ways) :
        /\ Cardinality(SidsOf(wi)) >= 3
        /\ ways[wi][1] \in crossings
        /\ ways[wi][Len(ways[wi])] \in crossings
        /\ \E a, b \in DOMAIN ways[wi] : a # b /\ ways[wi][a] = ways[wi][b]

\* C7: the keys of the segment map are exactly 0..k-1 for k segments stored, the
\* ids are handed out in increasing order without reuse or gap, and the counter is
\* shared by all ways
C7_SidDense ==
    /\ DOMAIN segments = 0..(Len(emitted) - 1)
    /\ \A i \in DOMAIN emitted : emitted[i][1] = i - 1
    /\ sid = Len(emitted)

C7_Witness ==
    /\ pc = "done"
    /\ Len(ways) = 2
    /\ ~HasCrossing(ways[1])
    /\ HasCrossing(ways[2])
    /\ Cardinality(DOMAIN segments) >= 3

\* position of the first crossing after the first node, or the last position
FirstLaterCrossing(nodes) ==
    Min({p \in 2..Len(nodes) : nodes[p] \in crossings} \cup {Len(nodes)})

\* C8: no node strictly between the first and the last position of a segment is a
\* crossing; a way that starts on a crossing is not split at its first node: its
\* first segment runs to the first later crossing
C8_NoInteriorCrossing ==
    /\ \A s \in DOMAIN segments :
          \A i \in 2..(Len(segments[s]) - 1) : segments[s][i] \notin crossings
    /\ \A wi \in 1..(w - 1) :
          (Len(ways[wi]) >= 2 /\ ways[wi][1] \in crossings) =>
              /\ SidsOf(wi) # {}
              /\ Min(SidsOf(wi)) \in DOMAIN segments
              /\ segments[Min(SidsOf(wi))]
                    = SubSeq(ways[wi], 1, FirstLaterCrossing(ways[wi]))

C8_Witness ==
    /\ pc = "done"
    /\ \E wi \in 1..Len(ways) :
        /\ Len(ways[wi]) = 4
        /\ ways[wi][1] \in crossings
        /\ ways[wi][2] \notin crossings
        /\ ways[wi][3] \in crossings
        /\ Cardinality(SidsOf(wi)) = 2

---------------------------------------------------------------------------
(* parse_ways (the inverted index it builds) and filter_out_orphan_nodes *)

\* invways after the nodes of way wayid were scanned
RECURSIVE IndexWay(_, _, _)
IndexWay(inv, nodes, wayid) ==
    IF nodes = <<>> THEN inv
    ELSE LET node == Head(nodes)
             inv1 == IF node \in DOMAIN inv
                     THEN Put(inv, node, Append(inv[node], wayid))
                     ELSE Put(inv, node, <<wayid>>)
         IN IndexWay(inv1, Tail(nodes), wayid)

\* invways after the ways 1..n were scanned
RECURSIVE InvWays(_, _)
InvWays(ws, n) == IF n = 0 THEN EmptyDict ELSE IndexWay(InvWays(ws, n - 1), ws[n], n)

RECURSIVE FilterList(_, _)
FilterList(nodes, validnodes) ==
    IF nodes = <<>> THEN <<>>
    ELSE IF Head(nodes) \in validnodes
         THEN <<Head(nodes)>> \o FilterList(Tail(nodes), validnodes)
         ELSE FilterList(Tail(nodes), validnodes)

SameCount(ninvways, nnodeshash) == ninvways = nnodeshash

CoordStores == UNION {[K -> {<<0, y>> : y \in NearCoords}] : K \in SUBSET Nodes}

InitFilter ==
    /\ pc = "check"
    /\ ways \in WayStores(MaxWays, MaxRefs)
    /\ invways = InvWays(ways, Len(ways))
    /\ nodeshash \in CoordStores
    /\ crossings = {}
    /\ segments = EmptyDict
    /\ invsegments = EmptyDict
    /\ sid = 0
    /\ segment = <<>>
    /\ w = 1
    /\ j = 1
    /\ emitted = <<>>
    /\ epsilon = 1
    /\ prevnode = <<0, 0>>
    /\ pts = <<>>
    /\ points = <<>>
    /\ idx = 0
    /\ k = 1
    /\ fault = "none"
    /\ result = <<>>

OtherFilter == <<nodeshash, crossings, segments, invsegments, sid, segment, j, emitted,
                 epsilon, prevnode, pts, points, idx, k, fault>>

FilterFastPath ==
    /\ pc = "check"
    /\ SameCount(Cardinality(DOMAIN invways), Cardinality(DOMAIN nodeshash))
    /\ pc' = "done"
    /\ result' = <<ways, invways>>
    /\ UNCHANGED <<ways, invways, w>>
    /\ UNCHANGED OtherFilter

FilterBegin ==
    /\ pc = "check"
    /\ ~SameCount(Cardinality(DOMAIN invways), Cardinality(DOMAIN nodeshash))
    /\ pc' = "ways"
    /\ UNCHANGED <<ways, invways, w, result>>
    /\ UNCHANGED OtherFilter

FilterWay ==
    /\ pc = "ways"
    /\ w <= Len(ways)
    /\ ways' = [ways EXCEPT ![w] = FilterList(ways[w], DOMAIN nodeshash)]
    /\ w' = w + 1
    /\ UNCHANGED <<pc, invways, result>>
    /\ UNCHANGED OtherFilter

FilterInvways ==
    /\ pc = "ways"
    /\ w > Len(ways)
    /\ LET invalid == DOMAIN invways \ DOMAIN nodeshash
       IN invways' = [n \in DOMAIN invways \ invalid |-> invways[n]]
    /\ pc' = "done"
    /\ result' = <<ways, invways'>>
    /\ UNCHANGED <<ways, w>>
    /\ UNCHANGED OtherFilter

NextFilter == FilterFastPath \/ FilterBegin \/ FilterWay \/ FilterInvways

SpecFilter == InitFilter /\ [][NextFilter]_vars

\* every node of a way and every key of the inverted way index has a coordinate
Reconciled ==
    /\ \A wi \in DOMAIN ways : Range(ways[wi]) \subseteq DOMAIN nodeshash
    /\ DOMAIN invways \subseteq DOMAIN nodeshash

ReconciledAfterParseNodes ==
    (pc = "done" /\ DOMAIN nodeshash \subseteq DOMAIN invways) => Reconciled

---------------------------------------------------------------------------
(* evenly_space_one_segment *)

Sub(a, b) == <<a[1] - b[1], a[2] - b[2]>>

\* Euclidean norm of a vector with a zero component
Norm(v) == Abs(v[1]) + Abs(v[2])

\* v / norm(v), for v # 0 with a zero component
Unit(v) == <<v[1] \div Norm(v), v[2] \div Norm(v)>>

NNewNodesUp(d, eps) == (d + eps - 1) \div eps

NNewNodes(d, eps) == d \div eps

\* the points appended by `for i in range(n)`, starting from cur
RECURSIVE Synthetic(_, _, _, _)
Synthetic(cur, direc, eps, n) ==
    IF n = 0 THEN <<>>
    ELSE LET newnode == <<cur[1] + direc[1] * eps, cur[2] + direc[2] * eps>>
         IN <<newnode>> \o Synthetic(newnode, direc, eps, n - 1)

\* the points one iteration of the loop over segment[1:] appends
Hop(prev, node, eps) ==
    LET d == Norm(Sub(node, prev))
    IN IF d < eps THEN <<node>>
       ELSE Synthetic(prev, Unit(Sub(node, prev)), eps, NNewNodes(d, eps))

RECURSIVE Walk(_, _, _, _)
Walk(prev, rest, nh, eps) ==
    IF rest = <<>> THEN <<>>
    ELSE LET node == nh[Head(rest)]
         IN Hop(prev, node, eps) \o Walk(node, Tail(rest), nh, eps)

\* the returned list of points, for a non-empty segment
EvenlySpaceOneSegment(seg, nh, eps) ==
    <<nh[seg[1]]>> \o Walk(nh[seg[1]], Tail(seg), nh, eps)

InitOne ==
    /\ pc = "start"
    /\ segment \in ListsUpTo(MaxRefs)
    /\ nodeshash \in [Nodes -> {<<0, y>> : y \in Coords}]
    /\ epsilon \in 1..MaxEps
    /\ ways = <<>>
    /\ invways = EmptyDict
    /\ crossings = {}
    /\ segments = EmptyDict
    /\ invsegments = EmptyDict
    /\ sid = 0
    /\ w = 1
    /\ j = 1
    /\ emitted = <<>>
    /\ prevnode = <<0, 0>>
    /\ pts = <<>>
    /\ points = <<>>
    /\ idx = 0
    /\ k = 1
    /\ fault = "none"
    /\ result = <<>>

OtherOne == <<ways, invways, nodeshash, crossings, segments, invsegments, sid, segment,
              w, emitted, epsilon, points, idx, k>>

OneIndexError ==
    /\ pc = "start"
    /\ segment = <<>>
    /\ fault' = "IndexError"
    /\ pc' = "done"
    /\ UNCHANGED <<prevnode, pts, j, result>>
    /\ UNCHANGED OtherOne

OneFirst ==
    /\ pc = "start"
    /\ segment # <<>>
    /\ prevnode' = nodeshash[segment[1]]
    /\ pts' = <<nodeshash[segment[1]]>>
    /\ j' = 2
    /\ pc' = "hop"
    /\ UNCHANGED <<fault, result>>
    /\ UNCHANGED OtherOne

OnePassThrough ==
    /\ pc = "hop"
    /\ j <= Len(segment)
    /\ Norm(Sub(nodeshash[segment[j]], prevnode)) < epsilon
    /\ pts' = pts \o Hop(prevnode, nodeshash[segment[j]], epsilon)
    /\ prevnode' = nodeshash[segment[j]]
    /\ j' = j + 1
    /\ UNCHANGED <<pc, fault, result>>
    /\ UNCHANGED OtherOne

OneInterpolate ==
    /\ pc = "hop"
    /\ j <= Len(segment)
    /\ ~(Norm(Sub(nodeshash[segment[j]], prevnode)) < epsilon)
    /\ pts' = pts \o Hop(prevnode, nodeshash[segment[j]], epsilon)
    /\ prevnode' = nodeshash[segment[j]]
    /\ j' = j + 1
    /\ UNCHANGED <<pc, fault, result>>
    /\ UNCHANGED OtherOne

OneReturn ==
    /\ pc = "hop"
    /\ j > Len(segment)
    /\ result' = pts
    /\ pc' = "done"
    /\ UNCHANGED <<prevnode, pts, j, fault>>
    /\ UNCHANGED OtherOne

NextOne == OneIndexError \/ OneFirst \/ OnePassThrough \/ OneInterpolate \/ OneReturn

SpecOne == InitOne /\ [][NextOne]_vars

\* C4: any two consecutive points emitted for a segment are at most epsilon apart
C4_SpacingAtMostEpsilon ==
    \A i \in 1..(Len(pts) - 1) : Norm(Sub(pts[i + 1], pts[i])) <= epsilon

\* the hop the step being taken makes, if it makes one
HopDistance == Norm(Sub(nodeshash[segment[j]], prevnode))

InterpolatedHop == pc = "hop" /\ j' = j + 1 /\ HopDistance >= epsilon

HopAsSpecified ==
    LET n == HopDistance \div epsilon
        direc == Unit(Sub(nodeshash[segment[j]], prevnode))
    IN /\ Len(pts') = Len(pts) + n
       /\ SubSeq(pts', 1, Len(pts)) = pts
       /\ \A i \in 1..n :
            /\ pts'[Len(pts) + i]
                 = <<prevnode[1] + i * epsilon * direc[1], prevnode[2] + i * epsilon * direc[2]>>
            /\ Norm(Sub(pts'[Len(pts) + i], prevnode)) = i * epsilon
            /\ i * epsilon <= HopDistance
       /\ prevnode' = nodeshash[segment[j]]

FirstPointIsFirstNode == pts # <<>> => pts[1] = nodeshash[segment[1]]

ExampleSegment ==
    /\ Len(segment) = 2
    /\ nodeshash[segment[1]] = <<0, 0>>
    /\ nodeshash[segment[2]] = <<0, 10>>
    /\ epsilon = 1
    /\ pc = "done"

ExampleResult ==
    /\ Len(result) = 11
    /\ result[1] = <<0, 0>>
    /\ result[11] = <<0, 10>>

\* C10: a hop of length d >= epsilon emits exactly floor(d / epsilon) points, at
\* offsets epsilon, 2 epsilon, ... from the reference point towards the node and none
\* beyond it, the node itself is not emitted separately, and the next reference
\* point is the node; the first point of a segment is its first node; the segment
\* from (0,0) to (0,10) with epsilon 1 yields 11 points, from (0,0) to (0,10)
C10_InterpolatedHop ==
    [][/\ InterpolatedHop => HopAsSpecified
       /\ FirstPointIsFirstNode'
       /\ ExampleSegment' => ExampleResult']_vars

C10_Witness == ExampleSegment /\ ExampleResult

---------------------------------------------------------------------------
(* evenly_space_segments *)

\* the capacity of the pre-allocated array, scaled down from 2^20 so that the model
\* reaches it
MAX_ARRAY_SZ == 4

Lower(a, b) == IF a < b THEN a ELSE b

\* the rows the slice idx:idx+n selects in an array of MAX_ARRAY_SZ rows (1-based)
SliceRows(i, n) == (Lower(i, MAX_ARRAY_SZ) + 1)..Lower(i + n, MAX_ARRAY_SZ)

\* numpy accepts the assignment of n rows to the slice when the slice has n rows, or
\* when n = 1 (one row is broadcast to the slice, whatever its length)
Assignable(i, n) == Cardinality(SliceRows(i, n)) = n \/ n = 1

\* the array after points[idx:idx+n, 0:2] = coords and points[idx:idx+n, 2] = sid
WriteRows(arr, i, coords, s) ==
    LET n == Len(coords)
        lo == Lower(i, MAX_ARRAY_SZ)
    IN [r \in DOMAIN arr |->
          IF r \in SliceRows(i, n)
          THEN LET c == IF n = 1 THEN coords[1] ELSE coords[r - lo]
               IN <<c[1], c[2], s>>
          ELSE arr[r]]

NextIdxShort(i, n) == i + n - 1

NextIdx(i, n) == i + n

\* points[:idx, :]
Prefix(arr, i) == [r \in 1..Lower(i, MAX_ARRAY_SZ) |-> arr[r]]

\* the segment map whose keys 0..n-1, inserted in this order, hold the lists of ws
AsSegmentMap(ws) == [s \in 0..(Len(ws) - 1) |-> ws[s + 1]]

InitBatch ==
    /\ pc = "loop"
    /\ segments \in {AsSegmentMap(ws) : ws \in WayStores(MaxWays, MaxRefs)}
    /\ nodeshash \in [Nodes -> {<<0, y>> : y \in NearCoords}]
    /\ epsilon \in 1..MaxEps
    /\ points = [r \in 1..MAX_ARRAY_SZ |-> <<>>]
    /\ idx = 0
    /\ k = 1
    /\ ways = <<>>
    /\ invways = EmptyDict
    /\ crossings = {}
    /\ invsegments = EmptyDict
    /\ sid = 0
    /\ segment = <<>>
    /\ w = 1
    /\ j = 1
    /\ emitted = <<>>
    /\ prevnode = <<0, 0>>
    /\ pts = <<>>
    /\ fault = "none"
    /\ result = <<>>

OtherBatch == <<ways, invways, nodeshash, crossings, segments, invsegments, sid, segment,
                w, j, emitted, epsilon, prevnode, pts>>

\* the key and the value the k-th iteration of `for sid, segment in segments.items()` sees
KeyAt(i) == i - 1

BatchIndexError ==
    /\ pc = "loop"
    /\ KeyAt(k) \in DOMAIN segments
    /\ segments[KeyAt(k)] = <<>>
    /\ fault' = "IndexError"
    /\ pc' = "done"
    /\ UNCHANGED <<points, idx, k, result>>
    /\ UNCHANGED OtherBatch

BatchWrite ==
    /\ pc = "loop"
    /\ KeyAt(k) \in DOMAIN segments
    /\ segments[KeyAt(k)] # <<>>
    /\ LET coords == EvenlySpaceOneSegment(segments[KeyAt(k)], nodeshash, epsilon)
           n == Len(coords)
       IN /\ Assignable(idx, n)
          /\ points' = WriteRows(points, idx, coords, KeyAt(k))
          /\ idx' = NextIdx(idx, n)
    /\ k' = k + 1
    /\ UNCHANGED <<pc, fault, result>>
    /\ UNCHANGED OtherBatch

BatchValueError ==
    /\ pc = "loop"
    /\ KeyAt(k) \in DOMAIN segments
    /\ segments[KeyAt(k)] # <<>>
    /\ LET coords == EvenlySpaceOneSegment(segments[KeyAt(k)], nodeshash, epsilon)
       IN ~Assignable(idx, Len(coords))
    /\ fault' = "ValueError"
    /\ pc' = "done"
    /\ UNCHANGED <<points, idx, k, result>>
    /\ UNCHANGED OtherBatch

BatchReturn ==
    /\ pc = "loop"
    /\ KeyAt(k) \notin DOMAIN segments
    /\ result' = Prefix(points, idx)
    /\ pc' = "done"
    /\ UNCHANGED <<points, idx, k, fault>>
    /\ UNCHANGED OtherBatch

NextBatch == BatchIndexError \/ BatchWrite \/ BatchValueError \/ BatchReturn

SpecBatch == InitBatch /\ [][NextBatch]_vars

Returned == pc = "done" /\ fault = "none"

\* the points of segment s, each tagged with s
Tagged(s) ==
    LET coords == EvenlySpaceOneSegment(segments[s], nodeshash, epsilon)
    IN [i \in 1..Len(coords) |-> <<coords[i][1], coords[i][2], s>>]

\* the tagged points of the segments s, s+1, ... of the map, in this order
RECURSIVE TaggedFrom(_)
TaggedFrom(s) == IF s \in DOMAIN segments THEN Tagged(s) \o TaggedFrom(s + 1) ELSE <<>>

\* C5: the function returns only when every point produced is in the returned array:
\* when the points of all segments outnumber MAX_ARRAY_SZ it raises instead
C5_NoSilentTruncation ==
    Returned => /\ Len(result) = Len(TaggedFrom(0))
                /\ Len(TaggedFrom(0)) <= MAX_ARRAY_SZ

\* C6: a segment map with an empty segment (which get_segments emits for a way with
\* an empty node list) is resampled without the fault of reading segment[0]
C6_EmptySegmentTolerated ==
    (pc = "done" /\ \E s \in DOMAIN segments : segments[s] = <<>>) => fault # "IndexError"

\* C9: below the bound, the rows tagged with one segment id form one block, the
\* block is the point sequence of that segment in order, each row carries the id of
\* its segment, and the blocks follow the iteration order of the segment map
C9_ContiguousBlocks ==
    (Returned /\ idx <= MAX_ARRAY_SZ) =>
        /\ result = TaggedFrom(0)
        /\ \A a, b \in DOMAIN result :
              (a < b /\ result[a][3] = result[b][3]) =>
                  \A c \in a..b : result[c][3] = result[a][3]

C9_Witness ==
    /\ Returned
    /\ idx <= MAX_ARRAY_SZ
    /\ Cardinality(DOMAIN segments) = 2
    /\ Len(Tagged(0)) = 2
    /\ Len(Tagged(1)) = 1
    /\ Len(result) = 3

===========================================================================
